---- MODULE Spec2Model ----
(***************************************************************************)
(* Model of the png2svg core engine (png2svg/core/src/lib.rs).             *)
(*                                                                         *)
(* Conventions                                                             *)
(*   - a color is a tuple <<r, g, b, a>> of bytes;                         *)
(*   - an image is a record [width, height, pixels], pixels row-major;     *)
(*   - pixel coordinates are 0-based tuples <<x, y>>;                      *)
(*   - option floats (detail, smoothness, tolerance) are fixed-point       *)
(*     hundredths: 0.6 is 60, 1.5 is 150;                                  *)
(*   - contour points (pixel centres x+0.5) are kept in half units:        *)
(*     the centre of pixel x is 2x+1; f32 arithmetic on them is modelled   *)
(*     exactly (rationals), which it is for the small coordinates here;    *)
(*   - the iteration order of a HashSet / HashMap (RandomState) is a       *)
(*     nondeterministic choice of a permutation, made by the action.       *)
(***************************************************************************)
EXTENDS Integers, Sequences, FiniteSets, TLC

VARIABLES
    pc,          \* position of the call under way (png_to_svg: start, decoded,
                 \* quantized, done, failed)
    input,       \* the input bytes: [ok |-> decodes?, image |-> the decoded image]
    options,     \* the VectorizeOptions record
    quantized,   \* the QuantizedImage (NoQuantized before quantize_image ran)
    result,      \* the Result of png_to_svg: [kind, svg]
    run,         \* which run of the pipeline on this input (1 or 2)
    first_svg,   \* the SVG text of run 1 (empty until run 1 finished)
    points,      \* rdp_simplify: the input point sequence
    rdp_tol,     \* rdp_simplify: the tolerance, in units of 1/200
    simplified,  \* rdp_simplify: the returned sequence (empty before the call)
    opt_value,   \* options round trip: the VectorizeOptions value
    opt_json,    \* options round trip: its serialized form (empty before)
    opt_back,    \* options round trip: the deserialized value
    cut_boxes,   \* median_cut_quantize: the list `boxes` between two iterations
    cut_max,     \* median_cut_quantize: the argument max_colors
    cut_pick,    \* median_cut_quantize: the last iteration's [boxes, box_idx]
    tr_idx,      \* render_svg: the palette index (color_idx) being rendered
    tr_components, \* find_connected_components' result for tr_idx
    tr_component,  \* trace_contour: the component being traced
    tr_boundary, \* trace_contour: boundary_set
    tr_walk,     \* trace_contour: the loop state [contour, current, visited, done]
    tr_steps,    \* trace_contour: iterations of the walk loop entered so far
    tr_result    \* trace_contour: the returned Option (None before the return)

vars == <<pc, input, options, quantized, result, run, first_svg,
          points, rdp_tol, simplified, opt_value, opt_json, opt_back,
          cut_boxes, cut_max, cut_pick,
          tr_idx, tr_components, tr_component, tr_boundary, tr_walk, tr_steps,
          tr_result>>

pipeVars == <<input, options, quantized, result, run, first_svg>>
rdpVars == <<points, rdp_tol, simplified>>
optVars == <<opt_value, opt_json, opt_back>>
cutVars == <<cut_boxes, cut_max, cut_pick>>
traceVars == <<tr_idx, tr_components, tr_component, tr_boundary, tr_walk,
               tr_steps, tr_result>>

(***************************************************************************)
(* Bounds of the model.                                                    *)
(***************************************************************************)
MaxPixels == 4      \* images have width * height <= MaxPixels
MaxLen == 4         \* rdp_simplify inputs have at most MaxLen points
MaxCoord == 2       \* rdp_simplify inputs lie on pixels 0..MaxCoord x 0..1

(***************************************************************************)
(* Generic helpers.                                                        *)
(***************************************************************************)
Max(a, b) == IF a >= b THEN a ELSE b

Range(s) == {s[i] : i \in DOMAIN s}

\* All orders in which a hash container may iterate over the set S.
HashOrders(S) ==
    {s \in [1..Cardinality(S) -> S] : \A i, j \in DOMAIN s : s[i] = s[j] => i = j}

RECURSIVE SumSeq(_)
SumSeq(s) == IF s = <<>> THEN 0 ELSE Head(s) + SumSeq(Tail(s))

\* Insert e into the sorted sequence s after every element whose key is <= e's.
RECURSIVE InsertByKey(_, _, _)
InsertByKey(s, e, dim) ==
    IF s = <<>> THEN <<e>>
    ELSE IF Head(s)[dim] <= e[dim] THEN <<Head(s)>> \o InsertByKey(Tail(s), e, dim)
    ELSE <<e>> \o s

\* slice::sort_by_key(|pixel| pixel[dim]): a stable sort on one channel.
RECURSIVE SortByKey(_, _)
SortByKey(s, dim) ==
    IF s = <<>> THEN <<>>
    ELSE InsertByKey(SortByKey(SubSeq(s, 1, Len(s) - 1), dim), s[Len(s)], dim)

(***************************************************************************)
(* Options.                                                                *)
(***************************************************************************)
Modes == {"Logo", "Poster", "PixelArt"}

DefaultOptions ==
    [colors |-> 8, detail |-> 60, smoothness |-> 50, tolerance |-> 150, mode |-> "Logo"]

Clamp(v, lo, hi) == IF v < lo THEN lo ELSE IF v > hi THEN hi ELSE v

\* (base * clamped_detail).ceil() with detail in hundredths.
palette_size_from_options(opts) ==
    LET clamped_detail == Clamp(opts.detail, 10, 100)
        base == Max(opts.colors, 2)
    IN  (base * clamped_detail + 99) \div 100

(***************************************************************************)
(* Palette Builder.                                                        *)
(***************************************************************************)
Transparent == <<0, 0, 0, 0>>

color_distance(a, b) ==
    LET dr == a[1] - b[1]
        dg == a[2] - b[2]
        db == a[3] - b[3]
        da == a[4] - b[4]
    IN  dr * dr + dg * dg + db * db + da * da

MinOf(S) == CHOOSE m \in S : \A e \in S : m <= e
MaxOf(S) == CHOOSE m \in S : \A e \in S : m >= e

ColorBox_new(pixels) ==
    IF pixels = <<>>
    THEN [pixels |-> pixels, r_min |-> 0, r_max |-> 0, g_min |-> 0, g_max |-> 0,
          b_min |-> 0, b_max |-> 0]
    ELSE [pixels |-> pixels,
          r_min |-> MinOf({p[1] : p \in Range(pixels)}),
          r_max |-> MaxOf({p[1] : p \in Range(pixels)}),
          g_min |-> MinOf({p[2] : p \in Range(pixels)}),
          g_max |-> MaxOf({p[2] : p \in Range(pixels)}),
          b_min |-> MinOf({p[3] : p \in Range(pixels)}),
          b_max |-> MaxOf({p[3] : p \in Range(pixels)})]

\* The channel (1 = R, 2 = G, 3 = B) of greatest range, ties R > G > B.
longest_dimension(box) ==
    LET r_range == box.r_max - box.r_min
        g_range == box.g_max - box.g_min
        b_range == box.b_max - box.b_min
    IN  IF r_range >= g_range /\ r_range >= b_range THEN 1
        ELSE IF g_range >= b_range THEN 2
        ELSE 3

average_color(box) ==
    IF box.pixels = <<>> THEN Transparent
    ELSE LET count == Len(box.pixels)
             chan(c) == SumSeq([i \in 1..count |-> box.pixels[i][c]]) \div count
         IN  <<chan(1), chan(2), chan(3), chan(4)>>

\* Mutant of PickBox: of several equally large boxes the first is returned.
PickBox_firstMax(boxes) ==
    LET cand == {i \in DOMAIN boxes : Len(boxes[i].pixels) > 1}
    IN  IF cand = {} THEN 0
        ELSE CHOOSE i \in cand :
                \A j \in cand :
                    \/ Len(boxes[j].pixels) < Len(boxes[i].pixels)
                    \/ Len(boxes[j].pixels) = Len(boxes[i].pixels) /\ i <= j

\* The box to split: Iterator::max_by_key over the boxes holding more than one
\* pixel returns the last of several equally large boxes.  0 stands for None.
PickBox(boxes) ==
    LET cand == {i \in DOMAIN boxes : Len(boxes[i].pixels) > 1}
    IN  IF cand = {} THEN 0
        ELSE CHOOSE i \in cand :
                \A j \in cand :
                    \/ Len(boxes[j].pixels) < Len(boxes[i].pixels)
                    \/ Len(boxes[j].pixels) = Len(boxes[i].pixels) /\ j <= i

RemoveAt(s, i) == SubSeq(s, 1, i - 1) \o SubSeq(s, i + 1, Len(s))

\* One iteration of the split loop on the box at box_idx.
SplitBox(boxes, box_idx) ==
    LET box_to_split == boxes[box_idx]
        rest == RemoveAt(boxes, box_idx)
        dim == longest_dimension(box_to_split)
        sorted_pixels == SortByKey(box_to_split.pixels, dim)
        median == Len(sorted_pixels) \div 2
        left_pixels == SubSeq(sorted_pixels, 1, median)
        right_pixels == SubSeq(sorted_pixels, median + 1, Len(sorted_pixels))
        withLeft == IF left_pixels # <<>>
                    THEN Append(rest, ColorBox_new(left_pixels)) ELSE rest
    IN  IF right_pixels # <<>>
        THEN Append(withLeft, ColorBox_new(right_pixels)) ELSE withLeft

\* Mutant of SplitLoop: the loop runs while boxes.len() <= max_colors.
RECURSIVE SplitLoop_offByOne(_, _)
SplitLoop_offByOne(boxes, max_colors) ==
    IF Len(boxes) > max_colors THEN boxes
    ELSE LET box_idx == PickBox(boxes)
         IN  IF box_idx = 0 THEN boxes
             ELSE LET next == SplitBox(boxes, box_idx)
                  IN  IF Len(next) = 1 /\ Len(next[1].pixels) <= 1 THEN next
                      ELSE SplitLoop_offByOne(next, max_colors)

\* while boxes.len() < max_colors { ... }
RECURSIVE SplitLoop(_, _)
SplitLoop(boxes, max_colors) ==
    IF Len(boxes) >= max_colors THEN boxes
    ELSE LET box_idx == PickBox(boxes)
         IN  IF box_idx = 0 THEN boxes
             ELSE LET next == SplitBox(boxes, box_idx)
                  IN  IF Len(next) = 1 /\ Len(next[1].pixels) <= 1 THEN next
                      ELSE SplitLoop(next, max_colors)

\* The loop over the unique colors (in hash order) that tops the palette up with
\* colors at distance >= 100 from every palette entry.
RECURSIVE AddDissimilar(_, _, _)
AddDissimilar(palette, order, max_colors) ==
    IF order = <<>> \/ Len(palette) >= max_colors THEN palette
    ELSE LET color == Head(order)
             is_similar == \E i \in DOMAIN palette :
                               color_distance(color, palette[i]) < 100
         IN  AddDissimilar(IF is_similar THEN palette ELSE Append(palette, color),
                           Tail(order), max_colors)

median_cut_quantize(pixels, max_colors, order) ==
    IF pixels = <<>> THEN <<Transparent>>
    ELSE LET boxes == SplitLoop(<<ColorBox_new(pixels)>>, max_colors)
             palette == [i \in DOMAIN boxes |-> average_color(boxes[i])]
         IN  IF Len(palette) < max_colors /\ Len(order) > Len(palette)
             THEN AddDissimilar(palette, order, max_colors)
             ELSE palette

\* The pixels build_palette samples: those with alpha > 0, in image order.
SampledPixels(image) == SelectSeq(image.pixels, LAMBDA p : p[4] > 0)

\* order: the iteration order of the HashSet of the sampled pixels' colors.
build_palette(image, max_colors, order) ==
    LET pixels == SampledPixels(image)
    IN  IF pixels = <<>> THEN <<Transparent>>
        ELSE IF Len(pixels) <= max_colors THEN order
        ELSE median_cut_quantize(pixels, Max(max_colors, 1), order)

(***************************************************************************)
(* Pixel Mapper.                                                           *)
(***************************************************************************)
\* Mutant of NearestFrom: an equally near later entry replaces the best one
\* (dist <= best_dist).
RECURSIVE NearestFrom_lastNearest(_, _, _, _, _)
NearestFrom_lastNearest(pixel, palette, opaque_palette, best_idx, best_dist) ==
    IF opaque_palette = <<>> THEN best_idx
    ELSE LET orig_idx == Head(opaque_palette)
             dist == color_distance(pixel, palette[orig_idx + 1])
         IN  IF best_dist = -1 \/ dist <= best_dist
             THEN NearestFrom_lastNearest(pixel, palette, Tail(opaque_palette),
                                          orig_idx, dist)
             ELSE NearestFrom_lastNearest(pixel, palette, Tail(opaque_palette),
                                          best_idx, best_dist)

\* The nearest entry among opaque_palette (a sequence of palette indices):
\* the fold keeps the first entry of least distance.
RECURSIVE NearestFrom(_, _, _, _, _)
NearestFrom(pixel, palette, opaque_palette, best_idx, best_dist) ==
    IF opaque_palette = <<>> THEN best_idx
    ELSE LET orig_idx == Head(opaque_palette)
             dist == color_distance(pixel, palette[orig_idx + 1])
         IN  IF best_dist = -1 \/ dist < best_dist
             THEN NearestFrom(pixel, palette, Tail(opaque_palette), orig_idx, dist)
             ELSE NearestFrom(pixel, palette, Tail(opaque_palette), best_idx, best_dist)

\* Mutant of map_to_palette: a transparent pixel gets the slot after the last
\* palette entry (palette.len()) instead of the position of the transparent entry.
map_to_palette_pastEnd(image, palette) ==
    LET opaque_palette ==
            SelectSeq([i \in DOMAIN palette |-> i - 1],
                      LAMBDA idx : palette[idx + 1][4] > 0)
    IN  [i \in DOMAIN image.pixels |->
            LET pixel == image.pixels[i]
            IN  IF pixel[4] = 0 THEN Len(palette)
                ELSE IF opaque_palette = <<>> THEN 0
                ELSE NearestFrom(pixel, palette, opaque_palette, 0, -1)]

\* Palette indices are 0-based, as in the source.
map_to_palette(image, palette) ==
    LET transp == {i \in DOMAIN palette : palette[i][4] = 0}
        transparent_idx == IF transp = {} THEN 0 ELSE MinOf(transp) - 1
        opaque_palette ==
            SelectSeq([i \in DOMAIN palette |-> i - 1],
                      LAMBDA idx : palette[idx + 1][4] > 0)
    IN  [i \in DOMAIN image.pixels |->
            LET pixel == image.pixels[i]
            IN  IF pixel[4] = 0 THEN transparent_idx
                ELSE IF opaque_palette = <<>> THEN 0
                ELSE NearestFrom(pixel, palette, opaque_palette, 0, -1)]

has_transparency(image) == \E i \in DOMAIN image.pixels : image.pixels[i][4] < 255

opaque_palette_size(image, opts) ==
    LET palette_size == palette_size_from_options(opts)
    IN  IF has_transparency(image) THEN Max(palette_size - 1, 0) ELSE palette_size

quantize_image(image, opts, order) ==
    LET built == build_palette(image, Max(opaque_palette_size(image, opts), 1), order)
        palette == IF has_transparency(image) THEN Append(built, Transparent) ELSE built
    IN  [palette |-> palette,
         indices |-> map_to_palette(image, palette),
         width |-> image.width,
         height |-> image.height]

(***************************************************************************)
(* Connected-Component Labeler.                                            *)
(***************************************************************************)
\* The 8 neighbor offsets <<dx, dy>>, in the order both the flood fill
\* (dy outer, dx inner) and the tracer's `neighbors` array visit them.
neighbors ==
    << <<-1, -1>>, <<0, -1>>, <<1, -1>>,
       <<-1, 0>>,             <<1, 0>>,
       <<-1, 1>>,  <<0, 1>>,  <<1, 1>> >>

InBounds(q, p) == p[1] >= 0 /\ p[2] >= 0 /\ p[1] < q.width /\ p[2] < q.height

IndexAt(q, p) == q.indices[p[2] * q.width + p[1] + 1]

\* Mutant of FloodFill: only the 4 cardinal neighbors are followed.
RECURSIVE FloodFill_4connected(_, _, _, _, _)
FloodFill_4connected(q, color_idx, stack, visited, component) ==
    IF stack = <<>> THEN [component |-> component, visited |-> visited]
    ELSE LET p == stack[Len(stack)]
             popped == SubSeq(stack, 1, Len(stack) - 1)
             around == [i \in DOMAIN neighbors |->
                           <<p[1] + neighbors[i][1], p[2] + neighbors[i][2]>>]
             fresh == SelectSeq(around,
                          LAMBDA n : /\ n[1] = p[1] \/ n[2] = p[2]
                                     /\ InBounds(q, n)
                                     /\ IndexAt(q, n) = color_idx
                                     /\ n \notin visited)
         IN  FloodFill_4connected(q, color_idx, popped \o fresh,
                                  visited \cup Range(fresh), component \cup {p})

\* while let Some((px, py)) = stack.pop() { ... }: returns the component and
\* the visited set.
RECURSIVE FloodFill(_, _, _, _, _)
FloodFill(q, color_idx, stack, visited, component) ==
    IF stack = <<>> THEN [component |-> component, visited |-> visited]
    ELSE LET p == stack[Len(stack)]
             popped == SubSeq(stack, 1, Len(stack) - 1)
             around == [i \in DOMAIN neighbors |->
                           <<p[1] + neighbors[i][1], p[2] + neighbors[i][2]>>]
             fresh == SelectSeq(around,
                          LAMBDA n : /\ InBounds(q, n)
                                     /\ IndexAt(q, n) = color_idx
                                     /\ n \notin visited)
         IN  FloodFill(q, color_idx, popped \o fresh, visited \cup Range(fresh),
                       component \cup {p})

\* The row-major scan from pixel number pos on; components in discovery order.
RECURSIVE ScanFrom(_, _, _, _, _)
ScanFrom(q, color_idx, pos, visited, components) ==
    IF pos >= q.width * q.height THEN components
    ELSE LET point == <<pos % q.width, pos \div q.width>>
         IN  IF q.indices[pos + 1] = color_idx /\ point \notin visited
             THEN LET fill == FloodFill(q, color_idx, <<point>>, visited \cup {point}, {})
                  IN  ScanFrom(q, color_idx, pos + 1, fill.visited,
                               IF fill.component # {}
                               THEN Append(components, fill.component) ELSE components)
             ELSE ScanFrom(q, color_idx, pos + 1, visited, components)

find_connected_components(q, color_idx) == ScanFrom(q, color_idx, 0, {}, <<>>)

(***************************************************************************)
(* Contour Tracer.                                                         *)
(***************************************************************************)
\* A pixel of the component with a neighbor out of bounds or of another index.
BoundarySet(q, component, color_idx) ==
    {p \in component :
        \E i \in DOMAIN neighbors :
            LET n == <<p[1] + neighbors[i][1], p[2] + neighbors[i][2]>>
            IN  ~InBounds(q, n) \/ IndexAt(q, n) # color_idx}

\* min_by(y, then x): the top-leftmost boundary pixel.
StartOf(boundary_set) ==
    CHOOSE s \in boundary_set :
        \A p \in boundary_set : s[2] < p[2] \/ (s[2] = p[2] /\ s[1] <= p[1])

\* Point::new(x + 0.5, y + 0.5), in half units.
Centre(p) == <<2 * p[1] + 1, 2 * p[2] + 1>>

\* Squared distance of two points, in squared half units (4 times the real one).
DistSq(a, b) == (a[1] - b[1]) * (a[1] - b[1]) + (a[2] - b[2]) * (a[2] - b[2])

FirstOr(s, other) == IF s = <<>> THEN other ELSE <<Head(s)>>

\* Mutant of Candidates: visited pixels are candidates again.
Candidates_ignoreVisited(boundary_set, visited, current, radius) ==
    SelectSeq([i \in DOMAIN neighbors |->
                  <<current[1] + neighbors[i][1] * radius,
                    current[2] + neighbors[i][2] * radius>>],
              LAMBDA c : c \in boundary_set)

\* The unvisited boundary pixels at `radius` steps in the 8 directions, in scan order.
Candidates(boundary_set, visited, current, radius) ==
    SelectSeq([i \in DOMAIN neighbors |->
                  <<current[1] + neighbors[i][1] * radius,
                    current[2] + neighbors[i][2] * radius>>],
              LAMBDA c : c \in boundary_set /\ c \notin visited)

\* Mutant of BestNext: the first candidate in scan order, cardinal or not.
BestNext_firstFound(boundary_set, visited, current) ==
    FirstOr(Candidates(boundary_set, visited, current, 1), <<>>)

\* best_next: the first cardinal candidate, else the first diagonal one
\* (a sequence of 0 or 1 pixels).
BestNext(boundary_set, visited, current) ==
    LET cands == Candidates(boundary_set, visited, current, 1)
        cardinal == SelectSeq(cands, LAMBDA c : c[1] = current[1] \/ c[2] = current[2])
    IN  FirstOr(cardinal, FirstOr(cands, <<>>))

\* Mutant of WalkStep: the pixel moved to is not inserted into visited.
WalkStep_noInsert(boundary_set, start, st) ==
    LET best_next == BestNext(boundary_set, st.visited, st.current)
        closeIfLong(c) == IF Len(c) > 2 THEN Append(c, c[1]) ELSE c
        capped(s) == [s EXCEPT !.done = Len(s.contour) > 2 * Cardinality(boundary_set)]
    IN  IF best_next # <<>>
        THEN LET next == best_next[1]
                 contour == Append(st.contour, Centre(next))
                 moved == [contour |-> contour, current |-> next,
                           visited |-> st.visited, done |-> FALSE]
             IN  IF Len(contour) > 3 /\ next = start
                 THEN [moved EXCEPT !.done = TRUE]
                 ELSE IF Len(contour) > 10 /\ DistSq(contour[Len(contour)], contour[1]) < 9
                 THEN [moved EXCEPT !.contour = Append(contour, contour[1]), !.done = TRUE]
                 ELSE capped(moved)
        ELSE IF boundary_set \ st.visited = {}
        THEN [st EXCEPT !.contour = closeIfLong(st.contour), !.done = TRUE]
        ELSE LET nearby == FirstOr(Candidates(boundary_set, st.visited, st.current, 2),
                                   FirstOr(Candidates(boundary_set, st.visited,
                                                      st.current, 3), <<>>))
             IN  IF nearby # <<>>
                 THEN capped([contour |-> Append(st.contour, Centre(nearby[1])),
                              current |-> nearby[1],
                              visited |-> st.visited \cup {nearby[1]},
                              done |-> FALSE])
                 ELSE [st EXCEPT !.contour = closeIfLong(st.contour), !.done = TRUE]

\* One iteration of the walk loop.  st = [contour, current, visited, done];
\* done is set when the iteration leaves the loop.
WalkStep(boundary_set, start, st) ==
    LET best_next == BestNext(boundary_set, st.visited, st.current)
        closeIfLong(c) == IF Len(c) > 2 THEN Append(c, c[1]) ELSE c
        capped(s) == [s EXCEPT !.done = Len(s.contour) > 2 * Cardinality(boundary_set)]
    IN  IF best_next # <<>>
        THEN LET next == best_next[1]
                 contour == Append(st.contour, Centre(next))
                 moved == [contour |-> contour, current |-> next,
                           visited |-> st.visited \cup {next}, done |-> FALSE]
             IN  IF Len(contour) > 3 /\ next = start
                 THEN [moved EXCEPT !.done = TRUE]
                 \* sqrt(dx^2 + dy^2) < 1.5 in pixels: squared half units below 9
                 ELSE IF Len(contour) > 10 /\ DistSq(contour[Len(contour)], contour[1]) < 9
                 THEN [moved EXCEPT !.contour = Append(contour, contour[1]), !.done = TRUE]
                 ELSE capped(moved)
        ELSE IF boundary_set \ st.visited = {}
        THEN [st EXCEPT !.contour = closeIfLong(st.contour), !.done = TRUE]
        ELSE LET nearby == FirstOr(Candidates(boundary_set, st.visited, st.current, 2),
                                   FirstOr(Candidates(boundary_set, st.visited,
                                                      st.current, 3), <<>>))
             IN  IF nearby # <<>>
                 THEN capped([contour |-> Append(st.contour, Centre(nearby[1])),
                              current |-> nearby[1],
                              visited |-> st.visited \cup {nearby[1]},
                              done |-> FALSE])
                 ELSE [st EXCEPT !.contour = closeIfLong(st.contour), !.done = TRUE]

WalkInit(start) ==
    [contour |-> <<Centre(start)>>, current |-> start, visited |-> {start}, done |-> FALSE]

RECURSIVE Walk(_, _, _)
Walk(boundary_set, start, st) ==
    IF st.done THEN st.contour ELSE Walk(boundary_set, start, WalkStep(boundary_set, start, st))

\* Option<Vec<Point>>: [some |-> FALSE] is None.
None == [some |-> FALSE, contour |-> <<>>]
Some(contour) == [some |-> TRUE, contour |-> contour]

\* Mutant of CloseContour: a walk of 2 points is closed and returned
\* (contour.len() < 2 in the length test).
CloseContour_min2(contour) ==
    IF Len(contour) < 2 THEN None
    ELSE IF DistSq(contour[Len(contour)], contour[1]) > 1
    THEN Some(Append(contour, contour[1]))
    ELSE Some(contour)

\* The closing of the walked contour (the code after the loop).
CloseContour(contour) ==
    IF Len(contour) < 3 THEN None
    \* dist > 0.5 pixels: squared half units above 1
    ELSE IF DistSq(contour[Len(contour)], contour[1]) > 1
    THEN Some(Append(contour, contour[1]))
    ELSE Some(contour)

trace_contour(q, component, color_idx) ==
    IF component = {} THEN None
    ELSE LET boundary_set == BoundarySet(q, component, color_idx)
         IN  IF boundary_set = {} THEN None
             ELSE LET start == StartOf(boundary_set)
                  IN  CloseContour(Walk(boundary_set, start, WalkInit(start)))

(***************************************************************************)
(* Path Simplifier.                                                        *)
(***************************************************************************)
\* A squared distance as a fraction <<num, den>>, den > 0, in squared half units.
point_to_line_dist_sq(p, line_p1, line_p2) ==
    LET dx == line_p2[1] - line_p1[1]
        dy == line_p2[2] - line_p1[2]
        len_sq == dx * dx + dy * dy
        px == p[1] - line_p1[1]
        py == p[2] - line_p1[2]
        dot == px * dx + py * dy
    IN  IF len_sq = 0 THEN <<px * px + py * py, 1>>
        ELSE IF dot <= 0 THEN <<px * px + py * py, 1>>              \* t clamped to 0
        ELSE IF dot >= len_sq THEN <<DistSq(p, line_p2), 1>>        \* t clamped to 1
        ELSE <<(px * px + py * py) * len_sq - dot * dot, len_sq>>

Greater(a, b) == a[1] * b[2] > b[1] * a[2]

\* The scan for the farthest interior point: <<max_idx, max_dist_sq>>, max_idx
\* a position of `pts` (1 is the source's initial 0).
RECURSIVE FarthestFrom(_, _, _, _)
FarthestFrom(pts, i, max_idx, max_dist_sq) ==
    IF i > Len(pts) - 1 THEN <<max_idx, max_dist_sq>>
    ELSE LET dist_sq == point_to_line_dist_sq(pts[i], pts[1], pts[Len(pts)])
         IN  IF Greater(dist_sq, max_dist_sq)
             THEN FarthestFrom(pts, i + 1, i, dist_sq)
             ELSE FarthestFrom(pts, i + 1, max_idx, max_dist_sq)

\* Mutant of rdp_simplify: the duplicate split point is not popped.
RECURSIVE rdp_simplify_keepDup(_, _)
rdp_simplify_keepDup(pts, tolerance) ==
    IF Len(pts) <= 2 THEN pts
    ELSE LET tol_sq == <<tolerance * tolerance, 10000>>
             far == FarthestFrom(pts, 2, 1, <<0, 1>>)
             max_idx == far[1]
         IN  IF Greater(far[2], tol_sq)
             THEN rdp_simplify_keepDup(SubSeq(pts, 1, max_idx), tolerance)
                  \o rdp_simplify_keepDup(SubSeq(pts, max_idx, Len(pts)), tolerance)
             ELSE <<pts[1], pts[Len(pts)]>>

\* tolerance in units of 1/200, so tolerance^2 is tol^2 / 10000 in squared half units.
RECURSIVE rdp_simplify(_, _)
rdp_simplify(pts, tolerance) ==
    IF Len(pts) <= 2 THEN pts
    ELSE LET tol_sq == <<tolerance * tolerance, 10000>>
             far == FarthestFrom(pts, 2, 1, <<0, 1>>)
             max_idx == far[1]
         IN  IF Greater(far[2], tol_sq)
             THEN LET left == rdp_simplify(SubSeq(pts, 1, max_idx), tolerance)
                      right == rdp_simplify(SubSeq(pts, max_idx, Len(pts)), tolerance)
                  IN  SubSeq(left, 1, Len(left) - 1) \o right
             ELSE <<pts[1], pts[Len(pts)]>>

(***************************************************************************)
(* Renderer.  The SVG text is a sequence of lines; a line is a tuple of its *)
(* tag and its formatted fields; path data is a sequence of commands.       *)
(***************************************************************************)
\* format!("{:.2}") of a value given in hundredths: <<integer part, 2 decimals>>.
Fmt2(hundredths) == <<hundredths \div 100, hundredths % 100>>

\* A point in half units, both coordinates formatted with {:.2}.
FmtPoint(p) == <<Fmt2(50 * p[1]), Fmt2(50 * p[2])>>

\* p1 + sign * d * smoothness * 0.3 for one coordinate, formatted with {:.2}:
\* p1 and d in half units, smoothness in hundredths, so the value is
\* (1000 * p1 + sign * 3 * d * smoothness) / 2000, rounded to hundredths.
FmtControl(p1, d, sign, smoothness) ==
    Fmt2((1000 * p1 + sign * 3 * d * smoothness + 10) \div 20)

CurveSegment(pts, i, smoothness) ==
    LET p0 == pts[i - 1]
        p1 == pts[i]
    IN  IF i = Len(pts) THEN <<"L">> \o FmtPoint(p1)
        ELSE LET p2 == pts[i + 1]
             IN  <<"C",
                   FmtControl(p1[1], p1[1] - p0[1], -1, smoothness),
                   FmtControl(p1[2], p1[2] - p0[2], -1, smoothness),
                   FmtControl(p1[1], p2[1] - p1[1], 1, smoothness),
                   FmtControl(p1[2], p2[2] - p1[2], 1, smoothness)>> \o FmtPoint(p1)

\* The path data; <<>> is the empty string.
points_to_path(pts, opts) ==
    IF Len(pts) < 2 THEN <<>>
    ELSE LET smoothness == Clamp(opts.smoothness, 0, 100)
             body == IF opts.mode = "Logo" /\ smoothness > 50 /\ Len(pts) > 4
                     THEN [i \in 1..(Len(pts) - 1) |-> CurveSegment(pts, i + 1, smoothness)]
                     ELSE [i \in 1..(Len(pts) - 1) |-> <<"L">> \o FmtPoint(pts[i + 1])]
         IN  << <<"M">> \o FmtPoint(pts[1]) >> \o body \o << <<"Z">> >>

\* format!("{}") of an integer: no decimals.
FmtInt(n) == <<n>>

\* "M {} {} L {} {} L {} {} L {} {} Z" over integer corners.
RectPath(x0, y0, x1, y1) ==
    << <<"M", FmtInt(x0), FmtInt(y0)>>, <<"L", FmtInt(x1), FmtInt(y0)>>,
       <<"L", FmtInt(x1), FmtInt(y1)>>, <<"L", FmtInt(x0), FmtInt(y1)>>, <<"Z">> >>

\* Mutant of Simplify: Poster halves the tolerance without the floor of 0.3.
Simplify_noFloor(contour, opts) ==
    IF opts.mode = "Logo" THEN contour
    ELSE IF opts.mode = "Poster" THEN rdp_simplify(contour, opts.tolerance)
    ELSE rdp_simplify(contour, 4 * opts.tolerance)

\* The mode dispatch of render_svg; rdp_simplify takes its tolerance in 1/200.
Simplify(contour, opts) ==
    IF opts.mode = "Logo" THEN contour
    ELSE IF opts.mode = "Poster" THEN rdp_simplify(contour, Max(opts.tolerance, 60))
    ELSE rdp_simplify(contour, 4 * opts.tolerance)

\* The body of `for component in components`: the path strings pushed for one
\* component (none or one).
ComponentPaths(q, opts, component, color_idx) ==
    LET traced == trace_contour(q, component, color_idx)
    IN  IF traced.some
        THEN LET path_d == points_to_path(Simplify(traced.contour, opts), opts)
             IN  IF path_d # <<>> THEN <<path_d>> ELSE <<>>
        ELSE LET min_x == MinOf({p[1] : p \in component})
                 max_x == MaxOf({p[1] : p \in component})
                 min_y == MinOf({p[2] : p \in component})
                 max_y == MaxOf({p[2] : p \in component})
             IN  IF max_x > min_x /\ max_y > min_y
                 THEN <<RectPath(min_x, min_y, max_x + 1, max_y + 1)>>
                 ELSE IF Cardinality(component) = 1
                 THEN LET px == CHOOSE p \in component : TRUE
                      IN  <<RectPath(px[1], px[2], px[1] + 1, px[2] + 1)>>
                 ELSE <<>>

RECURSIVE Flatten(_)
Flatten(ss) == IF ss = <<>> THEN <<>> ELSE Head(ss) \o Flatten(Tail(ss))

\* The paths of one palette entry, over its components in discovery order.
PathsOf(q, opts, color_idx) ==
    LET components == find_connected_components(q, color_idx)
    IN  Flatten([i \in DOMAIN components |->
                    ComponentPaths(q, opts, components[i], color_idx)])

\* The map paths_by_color once the loop over the palette has run: the entries
\* with nonzero alpha that got at least one path.
paths_by_color(q, opts) ==
    LET all == [j \in DOMAIN q.palette |->
                   IF q.palette[j][4] = 0 THEN <<>> ELSE PathsOf(q, opts, j - 1)]
    IN  [k \in {j - 1 : j \in {i \in DOMAIN all : all[i] # <<>>}} |-> all[k + 1]]

\* fill-opacity with {:.3}: max(alpha / 255, 0.95) in thousandths.
opacity_from_options(alpha) ==
    IF alpha >= 243 THEN (alpha * 2000 + 255) \div 510 ELSE 950

\* "{:02x}{:02x}{:02x}": six hex digits.
to_hex(color) ==
    <<color[1] \div 16, color[1] % 16, color[2] \div 16, color[2] % 16,
      color[3] \div 16, color[3] % 16>>

GroupLines(q, color_idx, paths) ==
    LET color == q.palette[color_idx + 1]
    IN  << <<"<g", to_hex(color), opacity_from_options(color[4])>> >>
        \o [i \in DOMAIN paths |-> <<"<path", paths[i]>>]
        \o << <<"</g>">> >>

\* The output loop over paths_by_color; order: the iteration order of the HashMap.
OutputGroups(q, by_color, order) ==
    Flatten([i \in DOMAIN order |-> GroupLines(q, order[i], by_color[order[i]])])

SvgText(q, by_color, order) ==
    << <<"<svg", q.width, q.height>> >>
    \o OutputGroups(q, by_color, order)
    \o << <<"</svg>">> >>

render_svg(q, opts, order) == SvgText(q, paths_by_color(q, opts), order)

(***************************************************************************)
(* The inputs of the model.                                                *)
(***************************************************************************)
Red == <<255, 0, 0, 255>>
Blue == <<0, 0, 255, 255>>
HalfGreen == <<0, 200, 0, 128>>

ModelColors == {Transparent, Red, Blue, HalfGreen}

Dims == {d \in (0..MaxPixels) \X (0..MaxPixels) : d[1] * d[2] <= MaxPixels}

Images ==
    UNION {{[width |-> d[1], height |-> d[2], pixels |-> px] :
                px \in [1..(d[1] * d[2]) -> ModelColors]} : d \in Dims}

EmptyImage == [width |-> 0, height |-> 0, pixels |-> <<>>]

\* Input bytes either fail to decode or decode to an image.
Inputs == {[ok |-> FALSE, image |-> EmptyImage]} \cup {[ok |-> TRUE, image |-> im] : im \in Images}

OptionValues ==
    [colors : {2, 3}, detail : {50, 100}, smoothness : {100}, tolerance : {150},
     mode : Modes]

NoQuantized == [palette |-> <<>>, indices |-> <<>>, width |-> 0, height |-> 0]
Pending == [kind |-> "Pending", svg |-> <<>>]

\* The variables of the operations a specification does not run keep these values.
IdleCut == cut_boxes = <<>> /\ cut_max = 0 /\ cut_pick = [boxes |-> <<>>, box_idx |-> 0]
IdleWalk == [contour |-> <<>>, current |-> <<0, 0>>, visited |-> {}, done |-> FALSE]
IdleTrace ==
    /\ tr_idx = 0 /\ tr_components = <<>> /\ tr_component = {} /\ tr_boundary = {}
    /\ tr_walk = IdleWalk /\ tr_steps = 0 /\ tr_result = None
IdlePipe ==
    /\ input = [ok |-> FALSE, image |-> EmptyImage]
    /\ options = DefaultOptions /\ quantized = NoQuantized /\ result = Pending
    /\ run = 1 /\ first_svg = <<>>
IdleRdp == points = <<>> /\ rdp_tol = 0 /\ simplified = <<>>
IdleOpt == opt_value = DefaultOptions /\ opt_json = <<>> /\ opt_back = DefaultOptions

(***************************************************************************)
(* png_to_svg as a state machine.                                          *)
(***************************************************************************)
Init ==
    /\ pc = "start"
    /\ input \in Inputs
    /\ options \in OptionValues
    /\ quantized = NoQuantized
    /\ result = Pending
    /\ run = 1
    /\ first_svg = <<>>
    /\ points = <<>> /\ rdp_tol = 0 /\ simplified = <<>>
    /\ opt_value = DefaultOptions /\ opt_json = <<>> /\ opt_back = DefaultOptions
    /\ IdleCut /\ IdleTrace

\* image::load_from_memory(png_bytes)? fails: the error is returned.
DecodeErr ==
    /\ pc = "start"
    /\ ~input.ok
    /\ pc' = "failed"
    /\ result' = [kind |-> "Decode", svg |-> <<>>]
    /\ UNCHANGED <<input, options, quantized, run, first_svg, rdpVars, optVars, cutVars, traceVars>>

DecodeOk ==
    /\ pc = "start"
    /\ input.ok
    /\ pc' = "decoded"
    /\ UNCHANGED <<pipeVars, rdpVars, optVars, cutVars, traceVars>>

Quantize ==
    /\ pc = "decoded"
    /\ \E order \in HashOrders(Range(SampledPixels(input.image))) :
           quantized' = quantize_image(input.image, options, order)
    /\ pc' = "quantized"
    /\ UNCHANGED <<input, options, result, run, first_svg, rdpVars, optVars, cutVars, traceVars>>

\* Mutant of Render: an image that yields no path is reported as a Vectorize error.
Render_failsWithoutPaths ==
    /\ pc = "quantized"
    /\ LET by_color == paths_by_color(quantized, options)
       IN  IF DOMAIN by_color = {}
           THEN /\ result' = [kind |-> "Vectorize", svg |-> <<>>]
                /\ pc' = "failed"
           ELSE /\ \E order \in HashOrders(DOMAIN by_color) :
                       result' = [kind |-> "Ok", svg |-> SvgText(quantized, by_color, order)]
                /\ pc' = "done"
    /\ UNCHANGED <<input, options, quantized, run, first_svg, rdpVars, optVars, cutVars, traceVars>>

Render ==
    /\ pc = "quantized"
    /\ LET by_color == paths_by_color(quantized, options)
       IN  \E order \in HashOrders(DOMAIN by_color) :
               result' = [kind |-> "Ok", svg |-> SvgText(quantized, by_color, order)]
    /\ pc' = "done"
    /\ UNCHANGED <<input, options, quantized, run, first_svg, rdpVars, optVars, cutVars, traceVars>>

\* The caller converts the same bytes with the same options a second time.
Rerun ==
    /\ pc = "done"
    /\ run = 1
    /\ first_svg' = result.svg
    /\ run' = 2
    /\ pc' = "start"
    /\ quantized' = NoQuantized
    /\ result' = Pending
    /\ UNCHANGED <<input, options, rdpVars, optVars, cutVars, traceVars>>

\* One call of png_to_svg.
Next == DecodeErr \/ DecodeOk \/ Quantize \/ Render

Spec == Init /\ [][Next]_vars

\* Two calls of png_to_svg on identical input.
NextTwice == DecodeErr \/ DecodeOk \/ Quantize \/ Render \/ Rerun

SpecTwice == Init /\ [][NextTwice]_vars

(***************************************************************************)
(* rdp_simplify as a pure function of bounded inputs.                      *)
(***************************************************************************)
GridPoints == {Centre(<<x, y>>) : x \in 0..MaxCoord, y \in 0..1}

PointSeqs == UNION {[1..n -> GridPoints] : n \in 0..MaxLen}

\* Tolerances in units of 1/200: 0, 0.3 (the Poster floor), 1.0 and 3.0.
RdpTolerances == {0, 60, 200, 600}

InitRdp ==
    /\ pc = "rdp_start"
    /\ points \in PointSeqs
    /\ rdp_tol \in RdpTolerances
    /\ simplified = <<>>
    /\ input = [ok |-> FALSE, image |-> EmptyImage]
    /\ options = DefaultOptions
    /\ quantized = NoQuantized
    /\ result = Pending
    /\ run = 1
    /\ first_svg = <<>>
    /\ opt_value = DefaultOptions /\ opt_json = <<>> /\ opt_back = DefaultOptions
    /\ IdleCut /\ IdleTrace

RdpCall ==
    /\ pc = "rdp_start"
    /\ simplified' = rdp_simplify(points, rdp_tol)
    /\ pc' = "rdp_done"
    /\ UNCHANGED <<points, rdp_tol, pipeVars, optVars, cutVars, traceVars>>

NextRdp == RdpCall

SpecRdp == InitRdp /\ [][NextRdp]_vars

(***************************************************************************)
(* The mode dispatch of render_svg on any contour.                         *)
(***************************************************************************)
MaxContour == 3

\* Pixel centres near the origin and two far ones: the distance of a near
\* point to a chord that ends on a far one is below the Poster floor.
WidePoints == GridPoints \cup {Centre(<<2 * MaxCoord, y>>) : y \in 0..1}

Contours == UNION {[1..n -> WidePoints] : n \in 0..MaxContour}

\* tolerance 0.1 (the least the options allow for) and 1.0, in every mode.
DispatchOptions ==
    {[DefaultOptions EXCEPT !.tolerance = t, !.mode = m] : t \in {10, 100}, m \in Modes}

InitDispatch ==
    /\ pc = "dispatch_start"
    /\ points \in Contours
    /\ options \in DispatchOptions
    /\ simplified = <<>>
    /\ rdp_tol = 0
    /\ input = [ok |-> FALSE, image |-> EmptyImage]
    /\ quantized = NoQuantized /\ result = Pending /\ run = 1 /\ first_svg = <<>>
    /\ IdleOpt /\ IdleCut /\ IdleTrace

\* let simplified = match options.mode { ... };
Dispatch ==
    /\ pc = "dispatch_start"
    /\ simplified' = Simplify(points, options)
    /\ pc' = "dispatch_done"
    /\ UNCHANGED <<points, rdp_tol, pipeVars, optVars, cutVars, traceVars>>

NextDispatch == Dispatch

SpecDispatch == InitDispatch /\ [][NextDispatch]_vars

(***************************************************************************)
(* (De)serialization of VectorizeOptions (serde derive, serde_json).       *)
(* The JSON text is a sequence of <<key, value text>> members; a number's   *)
(* text is a sequence of characters.                                       *)
(***************************************************************************)
Digits == <<"0", "1", "2", "3", "4", "5", "6", "7", "8", "9">>

DigitChar(d) == Digits[d + 1]
DigitVal(c) == (CHOOSE i \in DOMAIN Digits : Digits[i] = c) - 1

\* Display of an unsigned integer.
RECURSIVE FmtUInt(_)
FmtUInt(n) == IF n < 10 THEN <<DigitChar(n)>> ELSE Append(FmtUInt(n \div 10), DigitChar(n % 10))

RECURSIVE ParseUInt(_)
ParseUInt(cs) ==
    IF cs = <<>> THEN 0 ELSE 10 * ParseUInt(SubSeq(cs, 1, Len(cs) - 1)) + DigitVal(cs[Len(cs)])

\* The shortest decimal text of a float given in hundredths: "0.75", "0.4", "2.0".
FmtFloat(h) ==
    LET frac == h % 100
        fracText == IF frac % 10 = 0 THEN <<DigitChar(frac \div 10)>>
                    ELSE <<DigitChar(frac \div 10), DigitChar(frac % 10)>>
    IN  FmtUInt(h \div 100) \o <<".">> \o fracText

\* The float, in hundredths, of a decimal text with at most two decimals.
ParseFloat(cs) ==
    LET dot == {i \in DOMAIN cs : cs[i] = "."}
    IN  IF dot = {} THEN 100 * ParseUInt(cs)
        ELSE LET at == CHOOSE i \in dot : TRUE
                 fracText == SubSeq(cs, at + 1, Len(cs))
             IN  100 * ParseUInt(SubSeq(cs, 1, at - 1))
                 + (IF Len(fracText) = 1 THEN 10 * ParseUInt(fracText)
                    ELSE ParseUInt(SubSeq(fracText, 1, 2)))

\* Mutant of ModeToken: rename_all = "lowercase" alone, without the rename of PixelArt.
ModeToken_noRename(mode) ==
    IF mode = "Logo" THEN "logo"
    ELSE IF mode = "Poster" THEN "poster"
    ELSE "pixelart"

\* #[serde(rename_all = "lowercase")], PixelArt renamed to "pixel".
ModeToken(mode) ==
    IF mode = "Logo" THEN "logo"
    ELSE IF mode = "Poster" THEN "poster"
    ELSE "pixel"

\* Deserialization also accepts the aliases "pixelart" and "pixel-art";
\* "invalid" stands for the unknown-variant error.
ParseMode(token) ==
    IF token = "logo" THEN "Logo"
    ELSE IF token = "poster" THEN "Poster"
    ELSE IF token \in {"pixel", "pixelart", "pixel-art"} THEN "PixelArt"
    ELSE "invalid"

\* serde_json::to_string: the fields in declaration order.
to_string(opts) ==
    << <<"colors", FmtUInt(opts.colors)>>,
       <<"detail", FmtFloat(opts.detail)>>,
       <<"smoothness", FmtFloat(opts.smoothness)>>,
       <<"tolerance", FmtFloat(opts.tolerance)>>,
       <<"mode", ModeToken(opts.mode)>> >>

HasKey(json, key) == \E i \in DOMAIN json : json[i][1] = key
ValueOf(json, key) == json[CHOOSE i \in DOMAIN json : json[i][1] = key][2]

\* serde_json::from_str with #[serde(default)]: an absent field keeps its default.
from_str(json) ==
    [colors |-> IF HasKey(json, "colors") THEN ParseUInt(ValueOf(json, "colors"))
                ELSE DefaultOptions.colors,
     detail |-> IF HasKey(json, "detail") THEN ParseFloat(ValueOf(json, "detail"))
                ELSE DefaultOptions.detail,
     smoothness |-> IF HasKey(json, "smoothness")
                    THEN ParseFloat(ValueOf(json, "smoothness"))
                    ELSE DefaultOptions.smoothness,
     tolerance |-> IF HasKey(json, "tolerance")
                   THEN ParseFloat(ValueOf(json, "tolerance"))
                   ELSE DefaultOptions.tolerance,
     mode |-> IF HasKey(json, "mode") THEN ParseMode(ValueOf(json, "mode"))
              ELSE DefaultOptions.mode]

RoundTripOptions ==
    [colors : {0, 2, 8, 12, 64, 255}, detail : {0, 10, 60, 75, 100},
     smoothness : {0, 40, 50, 100}, tolerance : {10, 150, 200, 1000}, mode : Modes]

InitOptions ==
    /\ pc = "opt_start"
    /\ opt_value \in RoundTripOptions
    /\ opt_json = <<>>
    /\ opt_back = DefaultOptions
    /\ input = [ok |-> FALSE, image |-> EmptyImage]
    /\ options = DefaultOptions
    /\ quantized = NoQuantized
    /\ result = Pending
    /\ run = 1
    /\ first_svg = <<>>
    /\ points = <<>> /\ rdp_tol = 0 /\ simplified = <<>>
    /\ IdleCut /\ IdleTrace

Serialize ==
    /\ pc = "opt_start"
    /\ opt_json' = to_string(opt_value)
    /\ pc' = "opt_serialized"
    /\ UNCHANGED <<opt_value, opt_back, pipeVars, rdpVars, cutVars, traceVars>>

Deserialize ==
    /\ pc = "opt_serialized"
    /\ opt_back' = from_str(opt_json)
    /\ pc' = "opt_done"
    /\ UNCHANGED <<opt_value, opt_json, pipeVars, rdpVars, cutVars, traceVars>>

NextOptions == Serialize \/ Deserialize

SpecOptions == InitOptions /\ [][NextOptions]_vars

(***************************************************************************)
(* map_to_palette on any image and any non-empty palette.                  *)
(***************************************************************************)
MaxMapPixels == 2
MaxPalette == 3

MapImages ==
    {[width |-> n, height |-> 1, pixels |-> px] :
        n \in 1..MaxMapPixels, px \in UNION {[1..k -> ModelColors] : k \in 1..MaxMapPixels}}
MapPalettes == UNION {[1..n -> ModelColors] : n \in 1..MaxPalette}

InitMap ==
    /\ pc = "map_start"
    /\ \E image \in MapImages :
           /\ Len(image.pixels) = image.width
           /\ input = [ok |-> TRUE, image |-> image]
           /\ \E palette \in MapPalettes :
                  quantized = [palette |-> palette, indices |-> <<>>,
                               width |-> image.width, height |-> image.height]
    /\ options = DefaultOptions /\ result = Pending /\ run = 1 /\ first_svg = <<>>
    /\ IdleRdp /\ IdleOpt /\ IdleCut /\ IdleTrace

MapCall ==
    /\ pc = "map_start"
    /\ quantized' = [quantized EXCEPT
                         !.indices = map_to_palette(input.image, quantized.palette)]
    /\ pc' = "map_done"
    /\ UNCHANGED <<input, options, result, run, first_svg,
                   rdpVars, optVars, cutVars, traceVars>>

NextMap == MapCall

SpecMap == InitMap /\ [][NextMap]_vars

(***************************************************************************)
(* median_cut_quantize, one iteration of its split loop per step.          *)
(***************************************************************************)
\* build_palette hands over the pixels with alpha > 0.
CutPixels ==
    UNION {[1..n -> ModelColors \ {Transparent}] : n \in 1..MaxPixels}

InitCut ==
    /\ pc = "cut_loop"
    /\ \E pixels \in CutPixels : cut_boxes = <<ColorBox_new(pixels)>>
    /\ cut_max \in 1..MaxPixels
    /\ cut_pick = [boxes |-> <<>>, box_idx |-> 0]
    /\ IdlePipe /\ IdleRdp /\ IdleOpt /\ IdleTrace

\* An iteration that finds a box to split.
CutSplit ==
    /\ pc = "cut_loop"
    /\ Len(cut_boxes) < cut_max
    /\ PickBox(cut_boxes) # 0
    /\ cut_pick' = [boxes |-> cut_boxes, box_idx |-> PickBox(cut_boxes)]
    /\ cut_boxes' = SplitBox(cut_boxes, PickBox(cut_boxes))
    /\ pc' = IF Len(cut_boxes') = 1 /\ Len(cut_boxes'[1].pixels) <= 1
             THEN "cut_done" ELSE "cut_loop"
    /\ UNCHANGED <<cut_max, pipeVars, rdpVars, optVars, traceVars>>

\* The loop condition fails, or no box holds more than one pixel.
CutEnd ==
    /\ pc = "cut_loop"
    /\ Len(cut_boxes) >= cut_max \/ PickBox(cut_boxes) = 0
    /\ pc' = "cut_done"
    /\ UNCHANGED <<cutVars, pipeVars, rdpVars, optVars, traceVars>>

NextCut == CutSplit \/ CutEnd

SpecCut == InitCut /\ [][NextCut]_vars

(***************************************************************************)
(* find_connected_components and trace_contour on index grids, the walk    *)
(* loop one iteration per step.                                            *)
(***************************************************************************)
MaxCells == 9
RingSide == 4
MaxHoles == 1

\* A QuantizedImage of two palette entries with the given indices.
Grid(w, h, indices) ==
    [palette |-> <<Red, Blue>>, indices |-> indices, width |-> w, height |-> h]

\* Every index pattern on every grid of up to MaxCells pixels.
SmallGrids ==
    UNION {{Grid(d[1], d[2], ix) : ix \in [1..(d[1] * d[2]) -> {0, 1}]} :
              d \in {e \in (1..MaxCells) \X (1..MaxCells) : e[1] * e[2] <= MaxCells}}

\* Square grids of side RingSide of index 1 with up to MaxHoles pixels of
\* index 0: components whose boundary is a ring of more than 10 pixels.
RingGrids ==
    {Grid(RingSide, RingSide, [i \in 1..(RingSide * RingSide) |->
                                   IF i \in holes THEN 0 ELSE 1]) :
        holes \in {{f[k] : k \in 1..MaxHoles} \ {0} :
                      f \in [1..MaxHoles -> 0..(RingSide * RingSide)]}}

InitTrace ==
    /\ pc = "tr_start"
    /\ quantized \in SmallGrids \cup RingGrids
    /\ tr_idx \in {0, 1}
    /\ tr_components = <<>> /\ tr_component = {} /\ tr_boundary = {}
    /\ tr_walk = IdleWalk /\ tr_steps = 0 /\ tr_result = None
    /\ input = [ok |-> FALSE, image |-> EmptyImage]
    /\ options = DefaultOptions /\ result = Pending /\ run = 1 /\ first_svg = <<>>
    /\ IdleRdp /\ IdleOpt /\ IdleCut

\* let components = find_connected_components(quantized, color_idx);
Label ==
    /\ pc = "tr_start"
    /\ tr_components' = find_connected_components(quantized, tr_idx)
    /\ pc' = "tr_labelled"
    /\ UNCHANGED <<tr_idx, tr_component, tr_boundary, tr_walk, tr_steps, tr_result,
                   pipeVars, rdpVars, optVars, cutVars>>

\* trace_contour is called on a component: the code up to the loop.
BeginTrace ==
    /\ pc = "tr_labelled"
    /\ \E i \in DOMAIN tr_components :
           LET boundary_set == BoundarySet(quantized, tr_components[i], tr_idx)
           IN  /\ tr_component' = tr_components[i]
               /\ tr_boundary' = boundary_set
               /\ IF tr_components[i] = {} \/ boundary_set = {}
                  THEN pc' = "tr_traced" /\ tr_walk' = IdleWalk
                  ELSE pc' = "tr_walking" /\ tr_walk' = WalkInit(StartOf(boundary_set))
    /\ tr_steps' = 0
    /\ tr_result' = None
    /\ UNCHANGED <<tr_idx, tr_components, pipeVars, rdpVars, optVars, cutVars>>

\* One iteration of the walk loop.
WalkIteration ==
    /\ pc = "tr_walking"
    /\ ~tr_walk.done
    /\ tr_walk' = WalkStep(tr_boundary, StartOf(tr_boundary), tr_walk)
    /\ tr_steps' = tr_steps + 1
    /\ UNCHANGED <<pc, tr_idx, tr_components, tr_component, tr_boundary, tr_result,
                   pipeVars, rdpVars, optVars, cutVars>>

\* The code after the loop: the length test and the closing.
EndTrace ==
    /\ pc = "tr_walking"
    /\ tr_walk.done
    /\ tr_result' = CloseContour(tr_walk.contour)
    /\ pc' = "tr_traced"
    /\ UNCHANGED <<tr_idx, tr_components, tr_component, tr_boundary, tr_walk, tr_steps,
                   pipeVars, rdpVars, optVars, cutVars>>

NextTrace == Label \/ BeginTrace \/ WalkIteration \/ EndTrace

SpecTrace == InitTrace /\ [][NextTrace]_vars

\* The loop runs in one thread without waiting: an iteration that can be taken
\* is taken.
SpecTraceFair == SpecTrace /\ WF_vars(WalkIteration) /\ WF_vars(EndTrace)

(***************************************************************************)
(* Properties.                                                             *)
(***************************************************************************)
Quantized == pc \in {"quantized", "done"}

\* The colors of the pixels with alpha > 0.
DistinctColors(image) == Range(SampledPixels(image))

\* The budget quantize_image hands to build_palette.
Budget(image, opts) == Max(opaque_palette_size(image, opts), 1)

\* The palette entries with alpha > 0, in palette order.
OpaquePart(palette) == SelectSeq(palette, LAMBDA c : c[4] > 0)

\* What build_palette returned: the palette without the sentinel quantize_image pushed.
BuiltPart(image, palette) ==
    IF has_transparency(image) THEN SubSeq(palette, 1, Len(palette) - 1) ELSE palette

NoDuplicates(s) == \A i, j \in DOMAIN s : s[i] = s[j] => i = j

\* C1: two runs of the pipeline on identical input and options return
\* byte-identical SVG text.
C1_Deterministic ==
    (pc = "done" /\ run = 2) => result.svg = first_svg

\* C2: when the pixels with alpha > 0 carry at most `budget` distinct colors, the
\* opaque part of the palette is exactly that set of colors, each once.
C2_ExactDistinctPalette ==
    (Quantized /\ Cardinality(DistinctColors(input.image)) <= Budget(input.image, options))
        => /\ Range(OpaquePart(quantized.palette)) = DistinctColors(input.image)
           /\ NoDuplicates(OpaquePart(quantized.palette))

\* The path render_svg owes a component: the path of its traced contour, or the
\* rectangle over its bounding box (the unit quad for one pixel) when
\* trace_contour returns none.
OwedPath(q, opts, component, color_idx) ==
    LET traced == trace_contour(q, component, color_idx)
    IN  IF traced.some THEN points_to_path(Simplify(traced.contour, opts), opts)
        ELSE RectPath(MinOf({p[1] : p \in component}), MinOf({p[2] : p \in component}),
                      MaxOf({p[1] : p \in component}) + 1,
                      MaxOf({p[2] : p \in component}) + 1)

PathLines(svg) == {svg[i][2] : i \in {j \in DOMAIN svg : svg[j][1] = "<path"}}

OpaqueIndices(q) == {i - 1 : i \in {j \in DOMAIN q.palette : q.palette[j][4] # 0}}

\* C3: no component is dropped: for every palette entry with nonzero alpha and
\* every connected component of it, the SVG holds the path owed to the component.
C3_NoComponentDropped ==
    pc = "done" =>
        \A k \in OpaqueIndices(quantized) :
            \A component \in Range(find_connected_components(quantized, k)) :
                OwedPath(quantized, options, component, k) \in PathLines(result.svg)

AllTransparent(image) == \A i \in DOMAIN image.pixels : image.pixels[i][4] = 0

\* C4: an image with no pixels, or whose pixels all have alpha 0, gets the
\* palette of exactly one entry, the transparent sentinel.
C4_TransparentSinglePalette ==
    (Quantized /\ AllTransparent(input.image)) => quantized.palette = <<Transparent>>

\* C5: the QuantizedImage keeps the source width and height, has width*height
\* indices, and every index is below the palette length.
C5_IndicesValid ==
    Quantized =>
        /\ quantized.width = input.image.width
        /\ quantized.height = input.image.height
        /\ Len(quantized.indices) = quantized.width * quantized.height
        /\ \A i \in DOMAIN quantized.indices :
               quantized.indices[i] \in 0..(Len(quantized.palette) - 1)

\* Witness of C5: a transparent and an opaque pixel mapped to different entries of
\* a palette of three or more colors, the transparent one to the last entry.
C5_Witness ==
    /\ pc = "quantized"
    /\ Len(quantized.palette) >= 3
    /\ \E i, j \in DOMAIN quantized.indices :
           /\ input.image.pixels[i][4] = 0
           /\ quantized.indices[i] = Len(quantized.palette) - 1
           /\ quantized.indices[j] = 1

\* C6: build_palette returns at least 1 and at most max_colors colors, so the
\* palette of a quantized image is never empty.
C6_PaletteSize ==
    Quantized =>
        /\ Len(BuiltPart(input.image, quantized.palette)) >= 1
        /\ Len(BuiltPart(input.image, quantized.palette)) <= Budget(input.image, options)
        /\ Len(quantized.palette) >= 1

\* Witness of C6: median cut ran (more sampled pixels than the budget) and filled
\* a budget of two or more.
C6_Witness ==
    /\ pc = "quantized"
    /\ Budget(input.image, options) >= 2
    /\ Len(SampledPixels(input.image)) > Budget(input.image, options)
    /\ Len(BuiltPart(input.image, quantized.palette)) = Budget(input.image, options)

\* s is sub with some elements left out, the order kept.
RECURSIVE IsSubsequence(_, _)
IsSubsequence(sub, s) ==
    IF sub = <<>> THEN TRUE
    ELSE IF s = <<>> THEN FALSE
    ELSE IF Head(sub) = Head(s) THEN IsSubsequence(Tail(sub), Tail(s))
    ELSE IsSubsequence(sub, Tail(s))

\* C7: rdp_simplify returns a subsequence of its input, no longer than the input,
\* with the input's first and last points; inputs of at most 2 points are
\* returned unchanged.
C7_RdpSubsequence ==
    pc = "rdp_done" =>
        /\ IsSubsequence(simplified, points)
        /\ Len(simplified) <= Len(points)
        /\ (points # <<>> =>
               /\ simplified # <<>>
               /\ simplified[1] = points[1]
               /\ simplified[Len(simplified)] = points[Len(points)])
        /\ (Len(points) <= 2 => simplified = points)

\* Witness of C7: a run was split at its farthest point and yet lost a point.
C7_Witness ==
    /\ pc = "rdp_done"
    /\ Len(points) = 4
    /\ Len(simplified) = 3

HasVisiblePixel(image) == \E i \in DOMAIN image.pixels : image.pixels[i][4] # 0

\* C8: for an image with at least one pixel of nonzero alpha the SVG text starts
\* with the <svg root, ends with </svg> and holds at least one <path element.
C8_SvgHasPath ==
    (pc = "done" /\ HasVisiblePixel(input.image)) =>
        /\ result.svg[1][1] = "<svg"
        /\ result.svg[Len(result.svg)][1] = "</svg>"
        /\ \E i \in DOMAIN result.svg : result.svg[i][1] = "<path"

\* C9: png_to_svg fails only when decoding fails: every input that decodes is
\* carried through to Ok with SVG text, and the Vectorize kind is never returned.
C9_OnlyDecodeFails ==
    /\ result.kind # "Vectorize"
    /\ pc = "failed" => (~input.ok /\ result.kind = "Decode")
    /\ pc = "done" => (input.ok /\ result.kind = "Ok" /\ result.svg # <<>>)
    /\ pc \in {"decoded", "quantized"} => (input.ok /\ result.kind = "Pending")

\* Witness of C9: a fully transparent image with pixels was converted.
C9_Witness ==
    /\ pc = "done"
    /\ result.kind = "Ok"
    /\ input.image.pixels # <<>>
    /\ AllTransparent(input.image)

ModeTokenOf(json) == ValueOf(json, "mode")

\* C10: deserializing the serialized form of an Options value yields the same
\* colors, detail, smoothness, tolerance and mode, and the mode is serialized as
\* logo, poster or pixel (PixelArt as "pixel").
C10_OptionsRoundTrip ==
    /\ pc \in {"opt_serialized", "opt_done"} =>
           /\ ModeTokenOf(opt_json) \in {"logo", "poster", "pixel"}
           /\ (opt_value.mode = "PixelArt" => ModeTokenOf(opt_json) = "pixel")
    /\ pc = "opt_done" =>
           /\ opt_back.colors = opt_value.colors
           /\ opt_back.detail = opt_value.detail
           /\ opt_back.smoothness = opt_value.smoothness
           /\ opt_back.tolerance = opt_value.tolerance
           /\ opt_back.mode = opt_value.mode

\* Witness of C10: a PixelArt value with non-default fields made the round trip.
C10_Witness ==
    /\ pc = "opt_done"
    /\ opt_value.mode = "PixelArt"
    /\ opt_value.colors = 12
    /\ opt_value.detail = 75
    /\ opt_back = opt_value

\* Some pixel of the image has alpha 0.
HasAlphaZero(image) == \E i \in DOMAIN image.pixels : image.pixels[i][4] = 0

\* C11: the sentinel [0,0,0,0] is appended and the budget is reduced from k to
\* max(k-1,1) exactly when the image has a pixel with alpha 0; an image whose
\* pixels all have alpha > 0 gets the full budget k and no sentinel.
C11_SentinelOnAlphaZero ==
    Quantized =>
        LET k == palette_size_from_options(options)
        IN  \E order \in HashOrders(DistinctColors(input.image)) :
                quantized.palette =
                    IF HasAlphaZero(input.image)
                    THEN Append(build_palette(input.image, Max(k - 1, 1), order),
                                Transparent)
                    ELSE build_palette(input.image, k, order)

\* The boxes of the last iteration that can be split, and the one it chose.
Splittable == {j \in DOMAIN cut_pick.boxes : Len(cut_pick.boxes[j].pixels) > 1}
PickedIsLargest ==
    /\ cut_pick.box_idx \in Splittable
    /\ \A j \in Splittable :
           Len(cut_pick.boxes[j].pixels) <= Len(cut_pick.boxes[cut_pick.box_idx].pixels)
TiedWithPicked ==
    {j \in Splittable :
        Len(cut_pick.boxes[j].pixels) = Len(cut_pick.boxes[cut_pick.box_idx].pixels)}

\* C12: the box chosen for splitting has the maximum pixel count among the boxes
\* holding more than 1 pixel, and of several boxes sharing that maximum the one
\* that comes first in the box list is chosen.
C12_FirstLargestBox ==
    cut_pick.box_idx # 0 =>
        PickedIsLargest /\ \A j \in TiedWithPicked : cut_pick.box_idx <= j

\* C12 (amended): the box chosen for splitting has the maximum pixel count among
\* the boxes holding more than 1 pixel, and of several boxes sharing that
\* maximum the one that comes last in the box list is chosen.
C12_LastLargestBox ==
    cut_pick.box_idx # 0 =>
        PickedIsLargest /\ \A j \in TiedWithPicked : j <= cut_pick.box_idx

\* An iteration chose between two equally large boxes.
C12_Witness ==
    cut_pick.box_idx # 0 /\ Cardinality(TiedWithPicked) > 1

\* The 0-based positions of the palette entries with alpha 0 / with alpha > 0.
TransparentEntries == {j \in 0..(Len(quantized.palette) - 1) : quantized.palette[j + 1][4] = 0}
VisibleEntries == {j \in 0..(Len(quantized.palette) - 1) : quantized.palette[j + 1][4] > 0}
DistanceTo(i, j) == color_distance(input.image.pixels[i], quantized.palette[j + 1])

\* C13: a pixel with alpha 0 is mapped to the transparent palette entry (index 0
\* if the palette has none); any other pixel is mapped to the entry with nonzero
\* alpha of least squared RGBA distance, the lowest index among equally near
\* ones, and never to an alpha-0 entry when a nonzero-alpha entry exists.
C13_NearestVisibleEntry ==
    pc = "map_done" =>
        \A i \in DOMAIN input.image.pixels :
            LET idx == quantized.indices[i]
            IN  IF input.image.pixels[i][4] = 0
                THEN IF TransparentEntries = {} THEN idx = 0
                     ELSE idx \in TransparentEntries
                          /\ \A j \in TransparentEntries : idx <= j
                ELSE VisibleEntries # {} =>
                        /\ idx \in VisibleEntries
                        /\ \A j \in VisibleEntries :
                               \/ DistanceTo(i, idx) < DistanceTo(i, j)
                               \/ DistanceTo(i, idx) = DistanceTo(i, j) /\ idx <= j

\* A mapped image with an alpha-0 pixel and a palette without alpha-0 entry,
\* and a visible pixel with two equally near visible entries.
C13_Witness ==
    /\ pc = "map_done"
    /\ TransparentEntries = {}
    /\ \E i \in DOMAIN input.image.pixels : input.image.pixels[i][4] = 0
    /\ \E i \in DOMAIN input.image.pixels :
           /\ input.image.pixels[i][4] > 0
           /\ \E j \in VisibleEntries :
                  j # quantized.indices[i]
                  /\ DistanceTo(i, j) = DistanceTo(i, quantized.indices[i])

\* Two different pixels that touch by a side or a corner.
Adjacent8(a, b) ==
    /\ a # b
    /\ a[1] - b[1] \in -1..1
    /\ a[2] - b[2] \in -1..1

\* The pixels of set S that can be reached from the pixels R inside S.
RECURSIVE Reachable8(_, _)
Reachable8(S, R) ==
    LET more == R \cup {a \in S : \E b \in R : Adjacent8(a, b)}
    IN  IF more = R THEN R ELSE Reachable8(S, more)

Connected8(S) == S # {} /\ Reachable8(S, {CHOOSE a \in S : TRUE}) = S

\* The pixels of the grid bearing the index being rendered.
PixelsOfIndex ==
    {a \in (0..(quantized.width - 1)) \X (0..(quantized.height - 1)) :
        IndexAt(quantized, a) = tr_idx}

\* C14: find_connected_components returns a partition of the pixels bearing
\* the index: the components are non-empty and pairwise disjoint, their union
\* is the set of those pixels, each component is 8-connected, and no two
\* different components contain 8-adjacent pixels.
C14_ComponentsPartition ==
    pc = "tr_labelled" =>
        /\ \A i \in DOMAIN tr_components : Connected8(tr_components[i])
        /\ UNION {tr_components[i] : i \in DOMAIN tr_components} = PixelsOfIndex
        /\ \A i, j \in DOMAIN tr_components :
               i # j =>
                   /\ tr_components[i] \cap tr_components[j] = {}
                   /\ \A a \in tr_components[i], b \in tr_components[j] :
                          ~Adjacent8(a, b)

\* A labelled grid with two components, one of which holds together only by
\* a diagonal step.
C14_Witness ==
    /\ pc = "tr_labelled"
    /\ Len(tr_components) >= 2
    /\ \E i \in DOMAIN tr_components :
           \E a, b \in tr_components[i] :
               /\ a[1] # b[1] /\ a[2] # b[2] /\ Adjacent8(a, b)
               /\ \A c \in tr_components[i] \ {a, b} :
                      ~Adjacent8(a, c)

Tracing == pc \in {"tr_walking", "tr_traced"}

\* The contour stays within twice the boundary-pixel count plus the closing point.
ContourWithinCap ==
    Tracing =>
        /\ Len(tr_walk.contour) <= 2 * Cardinality(tr_boundary) + 1
        /\ Len(tr_result.contour) <= 2 * Cardinality(tr_boundary) + 1

\* C15: the boundary walk terminates for every component of every quantized
\* image: it reaches one of its exits after finitely many steps, and the contour
\* never grows beyond twice the boundary-pixel count plus the closing point.
C15_WalkTerminates ==
    /\ []ContourWithinCap
    /\ (pc = "tr_walking") ~> (pc = "tr_traced")

\* A walk that left its loop after several iterations, a jump among them.
C15_Witness ==
    /\ pc = "tr_traced"
    /\ tr_walk.done
    /\ tr_steps >= 3
    /\ \E i \in 1..(Len(tr_walk.contour) - 1) :
           DistSq(tr_walk.contour[i], tr_walk.contour[i + 1]) > 8

\* The centres (in half units) of the component's pixels that have one of
\* their 8 neighbors outside the grid or bearing another index.
BoundaryCentres ==
    {<<2 * a[1] + 1, 2 * a[2] + 1>> :
        a \in {b \in tr_component :
                  \E dx, dy \in -1..1 :
                      LET n == <<b[1] + dx, b[2] + dy>>
                      IN  \/ n[1] < 0 \/ n[2] < 0
                          \/ n[1] >= quantized.width \/ n[2] >= quantized.height
                          \/ IndexAt(quantized, n) # tr_idx}}

\* C16: every contour trace_contour returns is closed (last point = first
\* point), has at least 3 points, and consists of centres of boundary pixels of
\* the traced component; a walk that ends with fewer than 3 points yields none.
C16_ContourClosed ==
    pc = "tr_traced" =>
        /\ tr_result.some =>
               /\ Len(tr_result.contour) >= 3
               /\ tr_result.contour[Len(tr_result.contour)] = tr_result.contour[1]
               /\ \A i \in DOMAIN tr_result.contour :
                      tr_result.contour[i] \in BoundaryCentres
        /\ Len(tr_walk.contour) < 3 => ~tr_result.some

\* A component of several boundary pixels was traced and its contour returned.
C16_Witness ==
    /\ pc = "tr_traced"
    /\ tr_result.some
    /\ Len(tr_result.contour) > 3
    /\ Cardinality(tr_boundary) > 3

\* The pixel whose centre a contour point is.
PixelOf(point) == <<(point[1] - 1) \div 2, (point[2] - 1) \div 2>>

\* The place of pixel a in the scan of the 8 neighbors of pixel c (rows of dy
\* from -1 to 1, dx from -1 to 1 within a row).
ScanRank(c, a) == 3 * (a[2] - c[2] + 1) + (a[1] - c[1] + 1)

IsCardinal(c, a) == a[1] = c[1] \/ a[2] = c[2]

\* The pixel the greedy rule picks among the pixels `around` pixel c: the first
\* cardinal one in scan order, or the first in scan order if none is cardinal.
GreedyChoice(c, around) ==
    LET cardinal == {a \in around : IsCardinal(c, a)}
        pool == IF cardinal # {} THEN cardinal ELSE around
    IN  CHOOSE a \in pool : \A b \in pool : ScanRank(c, a) <= ScanRank(c, b)

\* The boundary pixels next to pixel c that are not in `seen`.
FreshAround(c, seen) == {a \in tr_boundary \ seen : Adjacent8(a, c)}

\* The first contour point is the centre of the top-leftmost boundary pixel.
StartsTopLeft ==
    pc = "tr_walking" =>
        LET first == PixelOf(tr_walk.contour[1])
        IN  /\ first \in tr_boundary
            /\ \A a \in tr_boundary :
                   first[2] < a[2] \/ (first[2] = a[2] /\ first[1] <= a[1])

\* An iteration that starts with an unvisited boundary neighbor moves to the
\* pixel of the greedy rule.
StepIsGreedy ==
    (pc = "tr_walking" /\ ~tr_walk.done
        /\ FreshAround(tr_walk.current, tr_walk.visited) # {})
    => /\ tr_walk'.current =
              GreedyChoice(tr_walk.current, FreshAround(tr_walk.current, tr_walk.visited))
       /\ tr_walk'.contour[Len(tr_walk.contour) + 1]
              = <<2 * tr_walk'.current[1] + 1, 2 * tr_walk'.current[2] + 1>>

\* C17: the first contour point is the boundary pixel with smallest y and then
\* smallest x, and each step with an unvisited boundary pixel among the 8
\* neighbours goes to the first unvisited boundary neighbour in scan order that
\* is cardinal or, only if none is cardinal, the first that is diagonal.
C17_GreedyWalkOrder == []StartsTopLeft /\ [][StepIsGreedy]_vars

\* The walk has just moved to a cardinal neighbor although an unvisited
\* diagonal boundary neighbor came earlier in the scan.
C17_Witness ==
    /\ pc = "tr_walking"
    /\ Len(tr_walk.contour) >= 2
    /\ LET n == Len(tr_walk.contour)
           prev == PixelOf(tr_walk.contour[n - 1])
           seen == {PixelOf(tr_walk.contour[i]) : i \in 1..(n - 1)}
       IN  /\ PixelOf(tr_walk.contour[n]) = tr_walk.current
           /\ Adjacent8(tr_walk.current, prev)
           /\ IsCardinal(prev, tr_walk.current)
           /\ \E a \in FreshAround(prev, seen) :
                  ~IsCardinal(prev, a) /\ ScanRank(prev, a) < ScanRank(prev, tr_walk.current)

\* The walked contour without the closing point (a copy of the first point at
\* the end).
WalkedPoints ==
    LET n == Len(tr_walk.contour)
    IN  IF tr_walk.done /\ n > 1 /\ tr_walk.contour[n] = tr_walk.contour[1]
        THEN SubSeq(tr_walk.contour, 1, n - 1)
        ELSE tr_walk.contour

\* The loop was left because the walk stepped back onto the start pixel
\* (contour.len() > 3 && current == start).
LeftAtStart ==
    /\ tr_walk.done
    /\ Len(tr_walk.contour) > 3
    /\ tr_walk.current = PixelOf(tr_walk.contour[1])

\* The loop was left by the safety cap.
LeftByCap == tr_walk.done /\ Len(tr_walk.contour) > 2 * Cardinality(tr_boundary)

\* C19: no boundary pixel is visited twice: apart from the appended closing
\* point all contour points are distinct and the contour has at most
\* (boundary-pixel count + 1) points; the walk never steps back onto the start
\* pixel and the cap 'length > 2 * boundary count' never ends a walk.
C19_NoPixelTwice ==
    Tracing =>
        /\ NoDuplicates(WalkedPoints)
        /\ Len(WalkedPoints) <= Cardinality(tr_boundary)
        /\ Len(tr_walk.contour) <= Cardinality(tr_boundary) + 1
        /\ Len(tr_result.contour) <= Cardinality(tr_boundary) + 1
        /\ ~LeftAtStart
        /\ ~LeftByCap

\* A walk over a ring of more than 10 boundary pixels came back next to its
\* start and was closed.
C19_Witness ==
    /\ pc = "tr_traced"
    /\ tr_result.some
    /\ Len(tr_walk.contour) > 11
    /\ Len(tr_walk.contour) = Cardinality(tr_walk.visited) + 1

\* A tolerance given in hundredths, in the unit rdp_simplify takes (1/200).
RdpUnits(hundredths) == 2 * hundredths

\* C18: in Logo mode the sequence handed to path emission is the traced contour
\* itself; in Poster mode it is rdp_simplify with tolerance
\* max(0.5 * tolerance, 0.3); in PixelArt mode rdp_simplify with 2.0 * tolerance.
C18_ModeDispatch ==
    pc = "dispatch_done" =>
        /\ options.mode = "Logo" => simplified = points
        /\ options.mode = "Poster" =>
               simplified = rdp_simplify(points, Max(RdpUnits(options.tolerance) \div 2,
                                                     RdpUnits(30)))
        /\ options.mode = "PixelArt" =>
               simplified = rdp_simplify(points, 2 * RdpUnits(options.tolerance))

\* A Poster dispatch the floor decided: half the tolerance would have kept
\* a point that tolerance 0.3 removes.
C18_Witness ==
    /\ pc = "dispatch_done"
    /\ options.mode = "Poster"
    /\ RdpUnits(options.tolerance) \div 2 < RdpUnits(30)
    /\ simplified # rdp_simplify(points, RdpUnits(options.tolerance) \div 2)
====
